---------------------------- MODULE Spec2Model ----------------------------
(***************************************************************************)
(* Model of src/index.tsx: the observable value container createAtom       *)
(* (lines 146-160), the delayed-value producer delayed (lines 140-142) and *)
(* the three display flows built on them (lines 48-138).                   *)
(*                                                                         *)
(* The atom keeps its listeners in an EventTarget.  The listener list of   *)
(* an EventTarget holds a callback at most once per event type:            *)
(* addEventListener does nothing when the callback is already in the list, *)
(* removeEventListener removes the entry with that callback, and           *)
(* dispatchEvent invokes, in list order, the entries of a copy of the list *)
(* taken when the dispatch starts, skipping entries removed meanwhile.     *)
(*                                                                         *)
(* The display flows run on React.  What the model takes from React:       *)
(*  - a state update made inside the function given to startTransition is  *)
(*    scheduled in the transition lane, any other in the sync lane;        *)
(*  - useTransition's pending is set true in the sync lane when            *)
(*    startTransition is called and set false in the transition lane;      *)
(*  - useSyncExternalStore reads getSnapshot() in every render and, when   *)
(*    the store notifies it of a changed snapshot, schedules a re-render   *)
(*    in the sync lane, inside startTransition too;                        *)
(*  - the sync lane is rendered and committed before the event handler's   *)
(*    task ends, after the pending passive effects have run;               *)
(*  - use(promise) suspends the render while the promise is pending: a     *)
(*    suspended sync-lane render commits the fallback of the Suspense      *)
(*    boundary, a suspended transition-lane render commits nothing when    *)
(*    the boundary already shows its content, and a render is tried again  *)
(*    once the promise is fulfilled;                                       *)
(*  - an element that suspends in its first render keeps no hook state;    *)
(*  - the setter of useState, given an updater while no update of the      *)
(*    element is waiting, evaluates it at once and schedules nothing when  *)
(*    the result is the current state (Object.is);                         *)
(*  - a passive effect runs after the commit; its cleanup runs before the  *)
(*    effect runs again for changed dependencies and when the element is   *)
(*    removed.                                                             *)
(*                                                                         *)
(* dispatchEvent reports an exception thrown by a listener and goes on     *)
(* with the next listener.                                                 *)
(*                                                                         *)
(* Four specifications: SpecAtom (a client that calls the atom directly),  *)
(* SpecReentrant (the same client with a callback that calls the atom or   *)
(* throws when it is invoked), SpecFlow (the display flows of App) and     *)
(* SpecShim (an element that uses useSyncExternalStoreShim on an atom of   *)
(* plain values which is also set from outside).                           *)
(***************************************************************************)
EXTENDS Integers, Sequences, FiniteSets, TLC

\* ------------------------------------------------------------------ bounds
\* Payloads the client passes to createAtom and set: 1..MaxVal.
MaxVal == 2
\* How many unsubscribe functions the client obtains from subscribe.
MaxHandles == 3
\* The same, when the callbacks act on the atom themselves.
MaxReentrantHandles == 2
\* How many pending values delayed produces in one run of a display flow.
MaxPromises == 3
\* How many times the effect of useSyncExternalStoreShim runs for one element
\* used on its own, and how many state updates of it wait for a render.
MaxEffectRuns == 2
MaxUpdates == 2

Values == 1..MaxVal
\* The client's callbacks (listener functions, compared by identity).
Callbacks == {"cb1", "cb2"}
None == 0

VARIABLES
    value,       \* createAtom's closure variable `value`
    listeners,   \* the "change" listener list of `events`, in list order
    handles,     \* the unsubscribe functions subscribe has returned so far: the
                 \* callback each closes over, whether it has been called (0:
                 \* never, 1: once, 2: more than once), and whether subscribe
                 \* had returned another one for that callback by its first call
    calls,       \* per callback: its invocations during the client's latest call
    seen,        \* per callback: what get() returned inside that invocation
    got,         \* what the client's latest call returned, when it was a get()
    op,          \* the client's latest call on the atom
    subscribed,  \* per callback: the client's latest call about it was subscribe
    lastSet,     \* argument of the latest set, or of createAtom before any set
    initial,     \* the value createAtom was called with
    behaviour,   \* per callback: what the function does when it is invoked
    pass         \* what happened inside the client's latest call: the listener
                 \* invocations in order, the set calls made, the callbacks a
                 \* listener added or removed, the exceptions reported, and
                 \* whether the call ended by throwing

atomVars == <<value, listeners, handles, calls, seen, got, op, subscribed, lastSet,
              initial, behaviour, pass>>

VARIABLES
    flow,        \* which section of App runs: "simple", "native" or "shim"
    promises,    \* the promises delayed has returned, by number of creation
    timers,      \* setTimeout calls that have not fired yet
    simpleValue, \* SimpleAsyncFlow's state `value` (a promise)
    snapshot,    \* useSyncExternalStoreShim's state `snapshot` (a promise)
    pending,     \* useTransition's `pending`
    queue,       \* state updates scheduled and not yet rendered
    effects,     \* the display's passive effects: "none", "scheduled", "done"
    screen,      \* what the Suspense boundary shows: "none", "fallback", "content"
    shown        \* the committed content: the promise whose value is in <p>, and
                 \* whether it has opacity 0.5

flowVars == <<flow, promises, timers, simpleValue, snapshot, pending, queue, effects,
              screen, shown>>

VARIABLES
    runs         \* how many times the effect of useSyncExternalStoreShim has run
                 \* for an element that uses the hook on its own

hookVars == <<runs>>
vars == <<atomVars, flowVars, hookVars>>

Range(s) == {s[i] : i \in DOMAIN s}

\* ------------------------------------------------------------ EventTarget
\* events.addEventListener("change", cb)
\* (faulty variant: the list keeps duplicates)
addEventListenerDup(list, cb) == Append(list, cb)
addEventListener(list, cb) ==
    IF cb \in Range(list) THEN list ELSE Append(list, cb)

\* events.removeEventListener("change", cb): drops the entry holding cb
\* (faulty variants: nothing is removed; every entry is removed)
removeEventListenerNoop(list, cb) == list
removeEventListenerAll(list, cb) == <<>>
removeEventListener(list, cb) ==
    IF cb \notin Range(list) THEN list
    ELSE LET i == CHOOSE k \in DOMAIN list :
                     list[k] = cb /\ \A j \in 1..(k - 1) : list[j] # cb
         IN  SubSeq(list, 1, i - 1) \o SubSeq(list, i + 1, Len(list))

\* ------------------------------------------------------------------- atom
\* The part of the state a set call and the listeners it runs can touch.
NoCalls == [cb \in Callbacks |-> 0]
NoneSeen == [cb \in Callbacks |-> None]
AtomState ==
    [value |-> value, listeners |-> listeners, calls |-> NoCalls, seen |-> NoneSeen,
     lane |-> "sync", scheduled |-> <<>>,
     thrown |-> FALSE, reported |-> 0, sets |-> 0, cur |-> 0, log |-> <<>>,
     added |-> {}, removedEarly |-> {}]

\* What the client's call left behind, for the variable `pass`.
Pass(st) ==
    [log |-> st.log, sets |-> st.sets, added |-> st.added,
     removedEarly |-> st.removedEarly, reported |-> st.reported, raised |-> st.thrown]
NoPass == Pass(AtomState)

\* The other one of the client's two callbacks.
Other(cb) == CHOOSE c \in Callbacks : c # cb

\* What a client callback can be:
\*   observe      () => { seen = atom.get() }
\*   throw        () => { seen = atom.get(); throw new Error() }
\*   subscribe    () => { seen = atom.get(); atom.subscribe(other) }
\*   unsubscribe  () => { seen = atom.get(); unsubscribeOther() }
\*   set          () => { seen = atom.get(); if (seen !== w) atom.set(w) }
Observer == [kind |-> "observe", arg |-> None]
Behaviours ==
    {[kind |-> k, arg |-> None] : k \in {"observe", "throw", "subscribe", "unsubscribe"}}
        \cup {[kind |-> "set", arg |-> w] : w \in Values}

\* get() { return value }
get(st) == st.value

\* The function useSyncExternalStoreShim's effect subscribes is a new closure
\* each time the effect runs; "shim" is the one of the display flow, whose
\* effect runs once.
Closure(run) == "shim" \o ToString(run)
ShimListeners == {"shim"} \cup {Closure(run) : run \in 1..MaxEffectRuns}

\* () => setSnapshot(getSnapshot), called by dispatchEvent.  React evaluates
\* the updater getSnapshot at once when no update of the element is waiting,
\* and schedules nothing when the result is the state the hook already holds
\* (Object.is); otherwise it schedules a state update in the lane of the code
\* that is running.
\* (faulty variant: an update is scheduled whatever the snapshot)
setSnapshotAlways(st, cb) ==
    [st EXCEPT !.log = Append(@, [cb |-> cb, set |-> st.cur, saw |-> None]),
               !.scheduled = Append(@, [hook |-> "snapshot", lane |-> st.lane,
                                        arg |-> None])]
setSnapshot(st, cb) ==
    LET st1 == [st EXCEPT !.log = Append(@, [cb |-> cb, set |-> st.cur, saw |-> None])]
    IN  IF queue = <<>> /\ st.scheduled = <<>> /\ get(st) = snapshot
        THEN st1
        ELSE [st1 EXCEPT !.scheduled = Append(@, [hook |-> "snapshot", lane |-> st.lane,
                                                  arg |-> None])]

\* A listener is called.
\*  - a client callback counts the invocation and reads the atom through get();
\*  - a listener of the shim is () => setSnapshot(getSnapshot);
\*  - "store" is the listener useSyncExternalStore subscribes: the snapshot
\*    has changed (every promise is a new object), so it schedules a re-render
\*    in the sync lane.
RECURSIVE set(_, _)
RECURSIVE subscribe(_, _)
RECURSIVE unsubscribe(_, _)
invoke(cb, st) ==
    CASE cb \in Callbacks ->
            LET b   == behaviour[cb]
                o   == Other(cb)
                st1 == [st EXCEPT !.calls[cb] = @ + 1, !.seen[cb] = get(st),
                                  !.log = Append(@, [cb |-> cb, set |-> st.cur,
                                                     saw |-> get(st)])]
            IN  (CASE b.kind = "observe" -> st1
                   [] b.kind = "throw" -> [st1 EXCEPT !.thrown = TRUE]
                   [] b.kind = "subscribe" ->
                         [subscribe(st1, o) EXCEPT !.added =
                              IF o \in Range(st1.listeners) THEN @ ELSE @ \cup {o}]
                   [] b.kind = "unsubscribe" ->
                         [unsubscribe(st1, o) EXCEPT !.removedEarly =
                              IF o \in Range(st1.listeners) /\ st1.calls[o] = 0
                              THEN @ \cup {o} ELSE @]
                   [] b.kind = "set" ->
                         IF get(st1) # b.arg THEN set(st1, b.arg) ELSE st1)
      [] cb \in ShimListeners -> setSnapshot(st, cb)
      [] cb = "store" ->
            [st EXCEPT !.scheduled = Append(@, [hook |-> "store", lane |-> "sync",
                                                arg |-> None])]

\* events.dispatchEvent(new Event("change")): walks the copy `clone` of the
\* listener list; an entry removed since the copy was taken is skipped.  An
\* exception a listener throws is reported and the walk goes on.
\* (faulty variants: the exception ends the walk and leaves dispatchEvent;
\*  entries removed since the copy was taken are invoked all the same;
\*  the walk follows the list itself, not a copy;
\*  a dispatch started while another one is running invokes nothing)
RECURSIVE dispatchEventNoCatch(_, _, _)
dispatchEventNoCatch(st, clone, i) ==
    IF i > Len(clone) THEN st
    ELSE IF clone[i] \notin Range(st.listeners)
         THEN dispatchEventNoCatch(st, clone, i + 1)
         ELSE LET r == invoke(clone[i], st)
              IN  IF r.thrown THEN r ELSE dispatchEventNoCatch(r, clone, i + 1)
RECURSIVE dispatchEventNoRemovedCheck(_, _, _)
dispatchEventNoRemovedCheck(st, clone, i) ==
    IF i > Len(clone) THEN st
    ELSE LET r == invoke(clone[i], st)
         IN  dispatchEventNoRemovedCheck(
                 IF r.thrown THEN [r EXCEPT !.thrown = FALSE, !.reported = @ + 1] ELSE r,
                 clone, i + 1)
RECURSIVE dispatchEventLive(_, _, _)
dispatchEventLive(st, clone, i) ==
    IF i > Len(st.listeners) THEN st
    ELSE LET r == invoke(st.listeners[i], st)
         IN  dispatchEventLive(
                 IF r.thrown THEN [r EXCEPT !.thrown = FALSE, !.reported = @ + 1] ELSE r,
                 clone, i + 1)
RECURSIVE dispatchEventNotNested(_, _, _)
dispatchEventNotNested(st, clone, i) ==
    IF st.cur > 1 \/ i > Len(clone) THEN st
    ELSE IF clone[i] \notin Range(st.listeners)
         THEN dispatchEventNotNested(st, clone, i + 1)
         ELSE LET r == invoke(clone[i], st)
              IN  dispatchEventNotNested(
                      IF r.thrown THEN [r EXCEPT !.thrown = FALSE, !.reported = @ + 1] ELSE r,
                      clone, i + 1)
RECURSIVE dispatchEvent(_, _, _)
dispatchEvent(st, clone, i) ==
    IF i > Len(clone) THEN st
    ELSE IF clone[i] \notin Range(st.listeners)
         THEN dispatchEvent(st, clone, i + 1)
         ELSE LET r == invoke(clone[i], st)
              IN  dispatchEvent(
                      IF r.thrown
                      THEN [r EXCEPT !.thrown = FALSE, !.reported = @ + 1]
                      ELSE r,
                      clone, i + 1)

\* set(newValue) { value = newValue; events.dispatchEvent(new Event("change")) }
\* (faulty variants: notify before assigning; never assign)
setNotifyFirst(st, newValue) ==
    [dispatchEvent(st, st.listeners, 1) EXCEPT !.value = newValue]
setNoCommit(st, newValue) ==
    dispatchEvent(st, st.listeners, 1)
set(st, newValue) ==
    LET st1 == [st EXCEPT !.value = newValue, !.sets = @ + 1, !.cur = st.sets + 1]
    IN  [dispatchEvent(st1, st1.listeners, 1) EXCEPT !.cur = st.cur]

\* subscribe(cb) { events.addEventListener("change", cb); return () => ... }
subscribe(st, cb) == [st EXCEPT !.listeners = addEventListener(@, cb)]

\* the function subscribe returned: () => events.removeEventListener("change", cb)
unsubscribe(st, cb) == [st EXCEPT !.listeners = removeEventListener(@, cb)]

\* ------------------------------------------------------ the atom's client
\* createAtom(v): the closure holds v, the EventTarget has no listener yet.
InitAtom ==
    /\ value \in Values
    /\ lastSet = value
    /\ initial = value
    /\ listeners = <<>>
    /\ handles = <<>>
    /\ calls = NoCalls
    /\ seen = NoneSeen
    /\ got = None
    /\ op = [name |-> "createAtom", arg |-> None]
    /\ subscribed = [cb \in Callbacks |-> FALSE]
    /\ behaviour = [cb \in Callbacks |-> Observer]
    /\ pass = NoPass
    /\ runs = 0
    /\ flow = "none"
    /\ promises = <<>>
    /\ timers = {}
    /\ simpleValue = None
    /\ snapshot = None
    /\ pending = FALSE
    /\ queue = <<>>
    /\ effects = "none"
    /\ screen = "none"
    /\ shown = [promise |-> None, pending |-> FALSE]

Get ==
    /\ got' = get(AtomState)
    /\ op' = [name |-> "get", arg |-> None]
    /\ calls' = NoCalls
    /\ seen' = NoneSeen
    /\ pass' = NoPass
    /\ UNCHANGED <<value, listeners, handles, subscribed, lastSet, initial, behaviour,
                   flowVars, hookVars>>

Set(v) ==
    LET st == set(AtomState, v)
    IN  /\ value' = st.value
        /\ listeners' = st.listeners
        /\ calls' = st.calls
        /\ seen' = st.seen
        /\ lastSet' = v
        /\ op' = [name |-> "set", arg |-> v]
        /\ got' = None
        /\ pass' = Pass(st)
        /\ UNCHANGED <<handles, subscribed, initial, behaviour, flowVars, hookVars>>

HandleLimit ==
    IF \A cb \in Callbacks : behaviour[cb] = Observer
    THEN MaxHandles ELSE MaxReentrantHandles

Subscribe(cb) ==
    /\ Len(handles) < HandleLimit
    /\ LET st == subscribe(AtomState, cb)
       IN  /\ listeners' = st.listeners
           /\ value' = st.value
           /\ calls' = st.calls
           /\ seen' = st.seen
           /\ pass' = Pass(st)
    /\ handles' = Append(handles, [cb |-> cb, called |-> 0, dup |-> FALSE])
    /\ subscribed' = [subscribed EXCEPT ![cb] = TRUE]
    /\ op' = [name |-> "subscribe", arg |-> Len(handles) + 1]
    /\ got' = None
    /\ UNCHANGED <<lastSet, initial, behaviour, flowVars, hookVars>>

\* The client calls the h-th unsubscribe function it holds (again, if it likes).
Unsubscribe(h) ==
    /\ h \in DOMAIN handles
    /\ LET st == unsubscribe(AtomState, handles[h].cb)
       IN  /\ listeners' = st.listeners
           /\ value' = st.value
           /\ calls' = st.calls
           /\ seen' = st.seen
           /\ pass' = Pass(st)
    /\ handles' = [handles EXCEPT ![h].called = IF @ = 0 THEN 1 ELSE 2,
                                  ![h].dup =
                                      IF handles[h].called = 0
                                      THEN \E g \in DOMAIN handles :
                                               g # h /\ handles[g].cb = handles[h].cb
                                      ELSE @]
    /\ subscribed' = [subscribed EXCEPT ![handles[h].cb] = FALSE]
    /\ op' = [name |-> "unsubscribe", arg |-> h]
    /\ got' = None
    /\ UNCHANGED <<lastSet, initial, behaviour, flowVars, hookVars>>

NextAtom ==
    \/ Get
    \/ \E v \in Values : Set(v)
    \/ \E cb \in Callbacks : Subscribe(cb)
    \/ \E h \in 1..MaxHandles : Unsubscribe(h)

SpecAtom == InitAtom /\ [][NextAtom]_vars

\* The same client, with one callback that acts on the atom when it is invoked
\* and one that only observes.
InitReentrant ==
    /\ value \in Values
    /\ lastSet = value
    /\ initial = value
    /\ listeners = <<>>
    /\ handles = <<>>
    /\ calls = NoCalls
    /\ seen = NoneSeen
    /\ got = None
    /\ op = [name |-> "createAtom", arg |-> None]
    /\ subscribed = [cb \in Callbacks |-> FALSE]
    /\ behaviour \in [Callbacks -> Behaviours]
    /\ \E cb \in Callbacks : behaviour[cb] # Observer /\ behaviour[Other(cb)] = Observer
    /\ pass = NoPass
    /\ runs = 0
    /\ flow = "none"
    /\ promises = <<>>
    /\ timers = {}
    /\ simpleValue = None
    /\ snapshot = None
    /\ pending = FALSE
    /\ queue = <<>>
    /\ effects = "none"
    /\ screen = "none"
    /\ shown = [promise |-> None, pending |-> FALSE]

SpecReentrant == InitReentrant /\ [][NextAtom]_vars

\* ================================================================ delayed
NewPromise == Len(promises) + 1

\* delayed(v): new Promise((resolve) => setTimeout(resolve, 1000, v)).
\* `created` keeps v, `abandoned` tells that the promise was replaced in its
\* container while it was pending.
\* (faulty variant: setTimeout(resolve, 1000), the value left out)
delayedNoValue(v) ==
    [promise |-> [created |-> v, status |-> "pending", result |-> None, resolves |-> 0,
                  abandoned |-> FALSE],
     timer |-> [promise |-> NewPromise, arg |-> None]]
delayed(v) ==
    [promise |-> [created |-> v, status |-> "pending", result |-> None, resolves |-> 0,
                  abandoned |-> FALSE],
     timer |-> [promise |-> NewPromise, arg |-> v]]

\* The promise's resolve function, called with x: only the first call settles.
resolve(pr, x) ==
    IF pr.status = "pending"
    THEN [pr EXCEPT !.status = "fulfilled", !.result = x, !.resolves = @ + 1]
    ELSE [pr EXCEPT !.resolves = @ + 1]

Fulfilled(ps, p) == p \in DOMAIN ps /\ ps[p].status = "fulfilled"

\* ============================================================ display flows
Flows == {"simple", "native", "shim"}

clientVars == <<handles, calls, seen, got, op, subscribed, lastSet, initial, behaviour,
                pass>>

\* The hook state of the flow's components.
Hooks == [simpleValue |-> simpleValue, snapshot |-> snapshot, pending |-> pending]

\* The lane of the updates made by the function the click handler runs:
\* click = () => { startTransition(() => { ... }) }
\* (faulty variant: the handler makes its updates outside startTransition)
clickLaneSync == "sync"
clickLane == "transition"

\* The listener the display's passive effect subscribes to the atom.
Listener == IF flow = "shim" THEN "shim" ELSE "store"

\* One scheduled update, applied in a render in which getSnapshot() = current.
\* (faulty variant: the update leaves the state as it is)
applyUpdateStale(h, u, current) == h
applyUpdate(h, u, current) ==
    CASE u.hook = "value"     -> [h EXCEPT !.simpleValue = u.arg]
      [] u.hook = "snapshot"  -> [h EXCEPT !.snapshot = current]
      [] u.hook = "pending" -> [h EXCEPT !.pending = u.arg]
      [] u.hook = "store"     -> h

RECURSIVE applyUpdates(_, _, _)
applyUpdates(h, ups, current) ==
    IF ups = <<>> THEN h
    ELSE applyUpdates(applyUpdate(h, Head(ups), current), Tail(ups), current)

\* The promise the display element passes to use(): the prop `promise`, the
\* result of useSyncExternalStore(atom.subscribe, atom.get), or the result of
\* useSyncExternalStoreShim(atom.subscribe, atom.get).
Read(h, current) ==
    CASE flow = "simple" -> h.simpleValue
      [] flow = "native" -> current
      [] flow = "shim"   -> h.snapshot

\* The promise the flow's container holds: the state of SimpleAsyncFlow with
\* the scheduled setValue calls applied, or the atom's value.
Container ==
    IF flow = "simple" THEN applyUpdates(Hooks, queue, value).simpleValue ELSE value

InitFlow ==
    /\ flow \in Flows
    /\ promises = <<>>
    /\ timers = {}
    /\ simpleValue = None
    /\ snapshot = None
    /\ pending = FALSE
    /\ queue = <<>>
    /\ effects = "none"
    /\ screen = "none"
    /\ shown = [promise |-> None, pending |-> FALSE]
    /\ value = None
    /\ listeners = <<>>
    /\ handles = <<>>
    /\ calls = NoCalls
    /\ seen = NoneSeen
    /\ got = None
    /\ op = [name |-> "none", arg |-> None]
    /\ subscribed = [cb \in Callbacks |-> FALSE]
    /\ lastSet = None
    /\ initial = None
    /\ behaviour = [cb \in Callbacks |-> Observer]
    /\ pass = NoPass
    /\ runs = 0

\* createRoot(...).render(<App />): the flow's outer component makes its
\* promise (and atom); the display's first render suspends on it, so the
\* boundary shows <p>Loading</p> and the display keeps no hook state.
Mount(v) ==
    /\ screen = "none"
    /\ LET d == delayed(v)
       IN  /\ promises' = Append(promises, d.promise)
           /\ timers' = timers \cup {d.timer}
           /\ simpleValue' = IF flow = "simple" THEN NewPromise ELSE simpleValue
           /\ value' = IF flow = "simple" THEN value ELSE NewPromise
    /\ screen' = "fallback"
    /\ UNCHANGED <<flow, snapshot, pending, queue, effects, shown, listeners, clientVars, hookVars>>

\* A timer of delayed fires: resolve(value).
TimerFire(p) ==
    \E t \in timers :
        /\ t.promise = p
        /\ promises' = [promises EXCEPT ![p] = resolve(@, t.arg)]
        /\ timers' = timers \ {t}
        /\ UNCHANGED <<flow, simpleValue, snapshot, pending, queue, effects, screen,
                       shown, value, listeners, clientVars, hookVars>>

\* The boundary shows the fallback and the promise the display reads is
\* fulfilled: the display renders and its content is committed.  A display
\* that has not been committed yet starts with fresh hooks
\* (useState(getSnapshot), pending false) and its passive effect is
\* scheduled.  The render takes the transition lane along or leaves it for
\* later.
Reveal(withTransition) ==
    /\ screen = "fallback"
    /\ withTransition => queue # <<>>
    /\ LET h0 == IF shown.promise = None
                 THEN [Hooks EXCEPT !.snapshot = IF flow = "shim" THEN get(AtomState) ELSE @]
                 ELSE Hooks
           h  == IF withTransition THEN applyUpdates(h0, queue, get(AtomState)) ELSE h0
           r  == Read(h, get(AtomState))
       IN  /\ Fulfilled(promises, r)
           /\ simpleValue' = h.simpleValue
           /\ snapshot' = h.snapshot
           /\ pending' = h.pending
           /\ shown' = [promise |-> r, pending |-> h.pending]
    /\ queue' = IF withTransition THEN <<>> ELSE queue
    /\ screen' = "content"
    /\ effects' = IF effects = "none" /\ flow # "simple" THEN "scheduled" ELSE effects
    /\ UNCHANGED <<flow, promises, timers, value, listeners, clientVars, hookVars>>

\* The passive effect of the committed display runs: subscribe(...).
RunEffects ==
    /\ effects = "scheduled"
    /\ listeners' = subscribe(AtomState, Listener).listeners
    /\ effects' = "done"
    /\ UNCHANGED <<flow, promises, timers, simpleValue, snapshot, pending, queue,
                   screen, shown, value, clientVars, hookVars>>

\* The Refresh button is clicked.  The handler calls startTransition, whose
\* function makes a promise and hands it to onChange (simple flow) or to
\* atom.set; then pending passive effects run and the sync lane is rendered:
\* its updates are applied to the hooks, and the display either commits its
\* content or, reading a pending promise, suspends and the boundary commits
\* the fallback.
Click(v) ==
    /\ screen = "content"
    /\ Len(promises) < MaxPromises
    /\ LET d    == delayed(v)
           p    == NewPromise
           old  == Container
           ps   == Append([promises EXCEPT ![old].abandoned =
                               @ \/ promises[old].status = "pending"], d.promise)
           \* onChange(p) is setValue(p); atom.set(p) runs the listeners
           st   == IF flow = "simple"
                   THEN AtomState
                   ELSE set([AtomState EXCEPT !.lane = clickLane], p)
           made == IF flow = "simple"
                   THEN <<[hook |-> "value", lane |-> clickLane, arg |-> p]>>
                   ELSE st.scheduled
           ups  == <<[hook |-> "pending", lane |-> "sync", arg |-> TRUE]>>
                   \o made
                   \o <<[hook |-> "pending", lane |-> clickLane, arg |-> FALSE]>>
           st2  == IF effects = "scheduled" THEN subscribe(st, Listener) ELSE st
           all  == queue \o ups
           h    == applyUpdates(Hooks, SelectSeq(all, LAMBDA u : u.lane = "sync"),
                                get(st2))
           r    == Read(h, get(st2))
       IN  /\ promises' = ps
           /\ timers' = timers \cup {d.timer}
           /\ value' = st2.value
           /\ listeners' = st2.listeners
           /\ queue' = SelectSeq(all, LAMBDA u : u.lane # "sync")
           /\ simpleValue' = h.simpleValue
           /\ snapshot' = h.snapshot
           /\ pending' = h.pending
           /\ IF Fulfilled(ps, r)
              THEN /\ screen' = "content"
                   /\ shown' = [promise |-> r, pending |-> h.pending]
              ELSE /\ screen' = "fallback"
                   /\ shown' = shown
    /\ effects' = IF effects = "scheduled" THEN "done" ELSE effects
    /\ UNCHANGED <<flow, clientVars, hookVars>>

\* The transition lane is rendered while the boundary shows its content.  A
\* render that reads a pending promise suspends and commits nothing; one that
\* reads a fulfilled promise is committed.
RenderTransition ==
    /\ screen = "content"
    /\ queue # <<>>
    /\ LET h == applyUpdates(Hooks, queue, get(AtomState))
           r == Read(h, get(AtomState))
       IN  /\ Fulfilled(promises, r)
           /\ simpleValue' = h.simpleValue
           /\ snapshot' = h.snapshot
           /\ pending' = h.pending
           /\ shown' = [promise |-> r, pending |-> h.pending]
    /\ queue' = <<>>
    /\ UNCHANGED <<flow, promises, timers, effects, screen, value, listeners, clientVars, hookVars>>

NextFlow ==
    \/ \E v \in Values : Mount(v)
    \/ \E p \in 1..MaxPromises : TimerFire(p)
    \/ \E b \in BOOLEAN : Reveal(b)
    \/ RunEffects
    \/ \E v \in Values : Click(v)
    \/ RenderTransition

SpecFlow == InitFlow /\ [][NextFlow]_vars

\* Timers fire, and React renders scheduled work and runs scheduled effects.
FairFlow ==
    /\ \A p \in 1..MaxPromises : WF_vars(TimerFire(p))
    /\ WF_vars(\E b \in BOOLEAN : Reveal(b))
    /\ WF_vars(RunEffects)
    /\ WF_vars(RenderTransition)

SpecFlowFair == SpecFlow /\ FairFlow

\* ======================================= useSyncExternalStoreShim on its own
\* An element that calls useSyncExternalStoreShim(subscribe, getSnapshot) on an
\* atom of plain values and renders the snapshot.  The atom is also set from
\* outside the element, at any time; the element's parent can hand it other
\* subscribe and getSnapshot functions for the same atom, and can remove it.

\* The cleanup of the effect: the function subscribe returned to the run
\* before, none when the effect has not run.
\* (faulty variant: the effect returns no cleanup)
cleanupNothing(st, run) == st
cleanup(st, run) ==
    IF run = 0 THEN st ELSE unsubscribe(st, Closure(run))

\* The effect: () => subscribe(() => setSnapshot(getSnapshot))
\* (faulty variant: having subscribed, it compares getSnapshot() with the
\*  state and schedules an update when they differ)
effectAndCheck(st, run) ==
    LET st1 == subscribe(st, Closure(run))
    IN  IF get(st1) = snapshot THEN st1
        ELSE [st1 EXCEPT !.scheduled = Append(@, [hook |-> "snapshot", lane |-> st.lane,
                                                  arg |-> None])]
effect(st, run) == subscribe(st, Closure(run))

InitShim ==
    /\ value \in Values
    /\ lastSet = value
    /\ initial = value
    /\ listeners = <<>>
    /\ handles = <<>>
    /\ calls = NoCalls
    /\ seen = NoneSeen
    /\ got = None
    /\ op = [name |-> "createAtom", arg |-> None]
    /\ subscribed = [cb \in Callbacks |-> FALSE]
    /\ behaviour = [cb \in Callbacks |-> Observer]
    /\ pass = NoPass
    /\ runs = 0
    /\ flow = "hook"
    /\ promises = <<>>
    /\ timers = {}
    /\ simpleValue = None
    /\ snapshot = None
    /\ pending = FALSE
    /\ queue = <<>>
    /\ effects = "none"
    /\ screen = "none"
    /\ shown = [promise |-> None, pending |-> FALSE]

shimFrame == <<handles, calls, seen, got, subscribed, initial, behaviour, flow,
               promises, timers, simpleValue, pending, shown>>

\* The first render of the element, committed: useState(getSnapshot) calls
\* getSnapshot; the effect is scheduled.
ShimMount ==
    /\ screen = "none"
    /\ snapshot' = get(AtomState)
    /\ effects' = "scheduled"
    /\ screen' = "content"
    /\ op' = [name |-> "mount", arg |-> None]
    /\ pass' = NoPass
    /\ UNCHANGED <<value, listeners, lastSet, queue, runs, shimFrame>>

\* The scheduled effect runs: the cleanup of the run before, then the effect.
ShimEffect ==
    /\ effects = "scheduled"
    /\ LET st == effect(cleanup(AtomState, runs), runs + 1)
       IN  /\ listeners' = st.listeners
           /\ queue' = queue \o st.scheduled
    /\ runs' = runs + 1
    /\ effects' = "done"
    /\ op' = [name |-> "effect", arg |-> runs + 1]
    /\ pass' = NoPass
    /\ UNCHANGED <<value, lastSet, snapshot, screen, shimFrame>>

\* atom.set(v), called from outside the element.
ShimSet(v) ==
    /\ Len(queue) < MaxUpdates
    /\ LET st == set(AtomState, v)
       IN  /\ value' = st.value
           /\ listeners' = st.listeners
           /\ queue' = queue \o st.scheduled
           /\ pass' = Pass(st)
    /\ lastSet' = v
    /\ op' = [name |-> "set", arg |-> v]
    /\ UNCHANGED <<snapshot, effects, screen, runs, shimFrame>>

\* React renders the element for its scheduled updates and commits.
ShimRender ==
    /\ screen = "content"
    /\ queue # <<>>
    /\ snapshot' = applyUpdates(Hooks, queue, get(AtomState)).snapshot
    /\ queue' = <<>>
    /\ op' = [name |-> "render", arg |-> None]
    /\ pass' = NoPass
    /\ UNCHANGED <<value, listeners, lastSet, effects, screen, runs, shimFrame>>

\* The parent renders the element with other subscribe and getSnapshot
\* functions: the dependencies of the effect have changed, so it is scheduled
\* again; useState keeps its state.
ShimNewProps ==
    /\ screen = "content"
    /\ effects = "done"
    /\ runs < MaxEffectRuns
    /\ snapshot' = applyUpdates(Hooks, queue, get(AtomState)).snapshot
    /\ queue' = <<>>
    /\ effects' = "scheduled"
    /\ op' = [name |-> "props", arg |-> None]
    /\ pass' = NoPass
    /\ UNCHANGED <<value, listeners, lastSet, screen, runs, shimFrame>>

\* The element is removed: the cleanup of the effect runs, scheduled updates
\* and a scheduled effect are dropped.
ShimUnmount ==
    /\ screen = "content"
    /\ listeners' = cleanup(AtomState, runs).listeners
    /\ queue' = <<>>
    /\ effects' = "none"
    /\ screen' = "gone"
    /\ op' = [name |-> "unmount", arg |-> None]
    /\ pass' = NoPass
    /\ UNCHANGED <<value, lastSet, snapshot, runs, shimFrame>>

NextShim ==
    \/ ShimMount
    \/ ShimEffect
    \/ \E v \in Values : ShimSet(v)
    \/ ShimRender
    \/ ShimNewProps
    \/ ShimUnmount

SpecShim == InitShim /\ [][NextShim]_vars

\* React renders scheduled updates.
SpecShimFair == SpecShim /\ WF_vars(ShimRender)

\* ================================================================ claims
\* ---------------------------------------------------------------- C1
\* C1: whatever calls came before, a get() returns the argument of the latest
\* set, and the value given to createAtom when no set has been made.
C1_GetReturnsLatest ==
    op.name = "get" => got = lastSet

\* A get that follows a set of a new value, with subscribe and unsubscribe
\* calls made along the way.
C1_Witness ==
    /\ op.name = "get"
    /\ got # initial
    /\ \E h \in DOMAIN handles : handles[h].called > 0
    /\ listeners # <<>>

\* ---------------------------------------------------------------- C2
\* C2: a set call invokes exactly once every callback whose latest
\* subscribe has not been followed by a call of one of its unsubscribe
\* functions, and invokes no other callback.
C2_OncePerSet ==
    op.name = "set" =>
        \A cb \in Callbacks : calls[cb] = IF subscribed[cb] THEN 1 ELSE 0

\* A set that invokes a callback subscribed twice once, and does not invoke
\* a callback that was unsubscribed.
C2_Witness ==
    /\ op.name = "set"
    /\ \E cb \in Callbacks :
          /\ calls[cb] = 1
          /\ Cardinality({h \in DOMAIN handles : handles[h].cb = cb}) = 2
    /\ \E cb \in Callbacks :
          /\ calls[cb] = 0
          /\ \E h \in DOMAIN handles : handles[h].cb = cb /\ handles[h].called > 0

\* ---------------------------------------------------------------- C3
\* C3: once an unsubscribe function of cb has been called (and cb has not
\* been subscribed again), a set does not invoke cb; and calling an
\* unsubscribe function that was already called changes neither the listener
\* list nor the value.
C3_NotInvokedAfterUnsubscribe ==
    \A h \in DOMAIN handles :
        (op.name = "set" /\ handles[h].called > 0 /\ ~subscribed[handles[h].cb])
            => calls[handles[h].cb] = 0

C3_SecondCallNoEffect ==
    \A h \in DOMAIN handles :
        (/\ handles[h].called > 0
         /\ ~subscribed[handles[h].cb]
         /\ op' = [name |-> "unsubscribe", arg |-> h])
            => (listeners' = listeners /\ value' = value)

C3_UnsubscribeIdempotent ==
    []C3_NotInvokedAfterUnsubscribe /\ [][C3_SecondCallNoEffect]_vars

\* An unsubscribe function has just been called for the second time while
\* another callback is registered.
C3_Witness ==
    /\ op.name = "unsubscribe"
    /\ handles[op.arg].called = 2
    /\ listeners # <<>>

\* ---------------------------------------------------------------- C4
\* C4: a listener invoked by set(v) reads v through get().
C4_ListenerSeesNewValue ==
    op.name = "set" =>
        \A cb \in Callbacks : calls[cb] > 0 => seen[cb] = op.arg

\* set(v) with v other than the previous value has invoked two listeners.
C4_Witness ==
    /\ op.name = "set"
    /\ op.arg # initial
    /\ \A cb \in Callbacks : calls[cb] > 0 /\ seen[cb] = op.arg

\* ---------------------------------------------------------------- C5
\* C5: in the flow that reads the atom through useSyncExternalStore, once the
\* content is shown no step brings the fallback back.
C5_NativeFallbackOnlyOnMount ==
    [][(flow = "native" /\ screen = "content") => screen' # "fallback"]_vars

\* ---------------------------------------------------------------- C6
\* C6: in the simple flow the boundary shows the fallback before any content,
\* the content shows the value of a fulfilled promise, and once the content
\* is shown no step brings the fallback back.
C6_SimpleFallbackOnlyOnMount ==
    [][flow = "simple" =>
          /\ screen = "none" => screen' # "content"
          /\ screen' = "content" => Fulfilled(promises', shown'.promise)
          /\ screen = "content" => screen' = "content"]_vars

\* The simple flow shows the value of the third promise: two refreshes have
\* gone through.
C6_Witness ==
    /\ flow = "simple"
    /\ screen = "content"
    /\ shown = [promise |-> 3, pending |-> FALSE]

\* ---------------------------------------------------------------- C7
\* C7: in the flow that reads the atom through useSyncExternalStoreShim, once
\* the content is shown no step brings the fallback back.
C7_ShimFallbackOnlyOnMount ==
    [][(flow = "shim" /\ screen = "content") => screen' = "content"]_vars

\* The shim flow shows the value of the third promise, set by a click made
\* while the second one was pending.
C7_Witness ==
    /\ flow = "shim"
    /\ screen = "content"
    /\ shown = [promise |-> 3, pending |-> FALSE]
    /\ promises[2].abandoned

\* ---------------------------------------------------------------- C8
\* The display has been committed and the promise in the container is pending.
Refreshing == shown.promise # None /\ ~Fulfilled(promises, Container)

\* C8: while a refresh is in flight the content stays on screen, showing the
\* value of a fulfilled promise de-emphasized; the fallback does not come
\* back; and once the promise in the container is fulfilled the display
\* gets to show its value at full opacity (unless a new refresh replaces it).
C8_PreviousValueUntilResolved ==
    Refreshing =>
        /\ screen = "content"
        /\ shown.pending
        /\ Fulfilled(promises, shown.promise)

C8_RefreshKeepsContent ==
    /\ []C8_PreviousValueUntilResolved
    /\ [][screen = "content" => screen' = "content"]_vars
    /\ \A p \in 1..MaxPromises :
          (shown.promise # None /\ Container = p /\ Fulfilled(promises, p))
              ~> (Container # p \/ (screen = "content"
                                     /\ shown = [promise |-> p, pending |-> FALSE]))

\* ---------------------------------------------------------------- C9
\* C9: a promise made by delayed is pending or fulfilled, its resolve function
\* is called at most once, a fulfilled one holds the value delayed was given,
\* and every promise made is eventually fulfilled, also one that was replaced
\* in its container while pending.
C9_ResolvedOnceWithItsValue ==
    \A p \in DOMAIN promises :
        /\ promises[p].status \in {"pending", "fulfilled"}
        /\ promises[p].resolves <= 1
        /\ promises[p].status = "fulfilled" =>
               (promises[p].result = promises[p].created /\ promises[p].resolves = 1)

C9_DelayedResolves ==
    /\ []C9_ResolvedOnceWithItsValue
    /\ \A p \in 1..MaxPromises :
          (p \in DOMAIN promises) ~> Fulfilled(promises, p)

\* A promise that was replaced while pending has been fulfilled with its
\* value, and the display never showed it.
C9_Witness ==
    \E p \in DOMAIN promises :
        /\ promises[p].abandoned
        /\ promises[p].status = "fulfilled"
        /\ promises[p].result = promises[p].created
        /\ shown.promise > p

\* ---------------------------------------------------------------- C10
\* subscribe(cb) has been called exactly twice, and then exactly one of the
\* two unsubscribe functions it returned has been called.
TwiceThenOne(cb) ==
    \E h1, h2 \in DOMAIN handles :
        /\ h1 # h2
        /\ {h \in DOMAIN handles : handles[h].cb = cb} = {h1, h2}
        /\ handles[h1].called > 0
        /\ handles[h1].dup
        /\ handles[h2].called = 0

\* C10 as stated: the registration of the other subscribe call is still
\* there, so a set that follows invokes cb.
C10_IndependentRegistrations ==
    \A cb \in Callbacks :
        (op.name = "set" /\ TwiceThenOne(cb)) => calls[cb] >= 1

\* C10 amended: subscribing the same callback twice makes one registration
\* (a set invokes it once), and either unsubscribe function removes it: a
\* set that follows does not invoke cb.
C10_SingleRegistration ==
    \A cb \in Callbacks :
        /\ (/\ op.name = "set"
            /\ Cardinality({h \in DOMAIN handles : handles[h].cb = cb}) >= 2
            /\ \A h \in DOMAIN handles : handles[h].cb = cb => handles[h].called = 0)
              => calls[cb] = 1
        /\ (op.name = "set" /\ TwiceThenOne(cb)) => calls[cb] = 0

\* A set made after subscribe(cb), subscribe(cb) and one unsubscribe call.
C10_Witness ==
    op.name = "set" /\ \E cb \in Callbacks : TwiceThenOne(cb) /\ calls[cb] = 0

\* ---------------------------------------------------------------- C11
\* C11: a callback that a listener subscribes while a set call is notifying
\* is registered but not invoked by that set call; the next set call is the
\* first to invoke it.
C11_NotInThatPass ==
    op'.name = "set" =>
        \A cb \in pass'.added : calls'[cb] = 0 /\ cb \in Range(listeners')

C11_ByTheNextSet ==
    (op.name = "set" /\ op'.name = "set") =>
        \A cb \in pass.added : calls'[cb] = 1

C11_AddedDuringPass ==
    [][C11_NotInThatPass /\ C11_ByTheNextSet]_vars

\* A set call has just returned during which an invoked listener subscribed
\* a callback that was not registered.
C11_Witness ==
    /\ op.name = "set"
    /\ pass.added # {}
    /\ \E cb \in Callbacks : calls[cb] = 1 /\ behaviour[cb].kind = "subscribe"

\* ---------------------------------------------------------------- C16
\* C16: only set changes the value: get, subscribe and an unsubscribe
\* function leave it as it is.  get also leaves the listener list as it is
\* and invokes no listener.  An unsubscribe function leaves the entries of
\* every callback other than its own where they are.
Without(list, cb) == SelectSeq(list, LAMBDA c : c # cb)

C16_OnlySetMutates ==
    /\ value' # value => op'.name = "set"
    /\ op'.name \in {"get", "subscribe", "unsubscribe"} => value' = value
    /\ op'.name = "get" => (listeners' = listeners /\ calls' = NoCalls)
    /\ op'.name = "unsubscribe" =>
          /\ Without(listeners', handles[op'.arg].cb)
                = Without(listeners, handles[op'.arg].cb)
          /\ calls' = NoCalls

C16_SetIsTheOnlyMutator == [][C16_OnlySetMutates]_vars

\* An unsubscribe function has just removed its callback's entry while the
\* other callback is registered, and the value is not the initial one.
C16_Witness ==
    /\ op.name = "unsubscribe"
    /\ handles[op.arg].called = 1
    /\ handles[op.arg].cb \notin Range(listeners)
    /\ listeners # <<>>
    /\ value # initial

\* ---------------------------------------------------------------- C17
\* C17: a set call whose listener throws still returns normally, has
\* assigned the new value, and has invoked every registered listener exactly
\* once, the ones after the throwing listener included.
C17_SetIsTotal ==
    (op.name = "set" /\ \E cb \in Callbacks : behaviour[cb].kind = "throw") =>
        /\ ~pass.raised
        /\ value = op.arg
        /\ \A cb \in Callbacks :
              calls[cb] = IF cb \in Range(listeners) THEN 1 ELSE 0
        /\ pass.reported = Cardinality({cb \in Range(listeners) :
                                            behaviour[cb].kind = "throw"})

\* A set call has just returned whose first listener threw while another
\* listener was registered behind it.
C17_Witness ==
    /\ op.name = "set"
    /\ Len(listeners) = 2
    /\ behaviour[listeners[1]].kind = "throw"
    /\ pass.reported = 1
    /\ calls[listeners[2]] = 1
    /\ value # initial

\* ---------------------------------------------------------------- C18
\* C18: when a listener invoked by set(v) calls set(w), the inner call
\* notifies every registered listener itself, so that each registered
\* listener is invoked exactly once for each of the two calls; every listener
\* invoked once the inner call has started reads w through get(), and w is
\* the value when the outer call has returned.
InvocationsFor(cb, k) ==
    {i \in DOMAIN pass.log : pass.log[i].cb = cb /\ pass.log[i].set = k}

C18_NestedSet ==
    \A s \in Callbacks :
        (op.name = "set" /\ behaviour[s].kind = "set" /\ pass.sets = 2) =>
            /\ \A cb \in Range(listeners) : \A k \in 1..2 :
                  Cardinality(InvocationsFor(cb, k)) = 1
            /\ Len(pass.log) = 2 * Len(listeners)
            /\ \A j \in DOMAIN pass.log :
                  (\E i \in 1..j : pass.log[i].set = 2)
                      => pass.log[j].saw = behaviour[s].arg
            /\ value = behaviour[s].arg

\* A set(v) call has just returned during which a listener called set(w),
\* w # v, with another listener registered in front of it or behind it.
C18_Witness ==
    /\ op.name = "set"
    /\ pass.sets = 2
    /\ Len(listeners) = 2
    /\ value # op.arg
    /\ \E j \in DOMAIN pass.log : pass.log[j].set = 1 /\ pass.log[j].saw = value

\* ---------------------------------------------------------------- C19
\* C19: a callback whose unsubscribe function a listener calls while a set
\* call is notifying, before that set call has invoked the callback, is
\* invoked neither by that set call nor by a later one: it is no longer
\* registered, and a set call invokes no callback that is not registered when
\* the call starts.
C19_NotInThatPass ==
    op'.name = "set" =>
        \A cb \in pass'.removedEarly : calls'[cb] = 0 /\ cb \notin Range(listeners')

C19_NotByALaterSet ==
    op'.name = "set" =>
        \A cb \in Callbacks \ Range(listeners) : calls'[cb] = 0

C19_RemovedDuringPass ==
    [][C19_NotInThatPass /\ C19_NotByALaterSet]_vars

\* A set call has just returned during which the first listener removed the
\* registration of the callback behind it.
C19_Witness ==
    /\ op.name = "set"
    /\ pass.removedEarly # {}
    /\ \E cb \in Callbacks : calls[cb] = 1 /\ behaviour[cb].kind = "unsubscribe"
    /\ Len(listeners) = 1

\* ---------------------------------------------------------------- C12
\* C12: the shim subscribes in an effect, after the first render has been
\* committed.  When the atom is set to another value after that render has
\* taken its snapshot and before the effect has subscribed, the snapshot is
\* still the old value once the subscription is made, while get() returns the
\* new one, and no update is scheduled; it stays so until the atom is set
\* again (or the element is removed).
Stale ==
    /\ screen = "content"
    /\ runs > 0
    /\ queue = <<>>
    /\ snapshot # value

C12_MissedInWindow ==
    (/\ screen = "content"
     /\ runs = 0
     /\ snapshot # value
     /\ op'.name = "effect")
        => (Stale' /\ Closure(runs') \in Range(listeners') /\ snapshot' = snapshot)

C12_StaysMissed ==
    (Stale /\ op'.name \notin {"set", "unmount"}) => (Stale' /\ snapshot' = snapshot)

C12_MissedUpdate == [][C12_MissedInWindow /\ C12_StaysMissed]_vars

\* The effect has just subscribed after a set made between the first render
\* and the effect: the snapshot is the value from before that set.
C12_Witness ==
    /\ op.name = "effect"
    /\ runs = 1
    /\ Closure(1) \in Range(listeners)
    /\ snapshot = initial
    /\ value # initial
    /\ queue = <<>>

\* ---------------------------------------------------------------- C13
\* C13: while the shim is subscribed, a set reaches it: the listener
\* schedules a state update (unless the hook already holds the new value), the
\* render that processes the scheduled updates leaves the snapshot equal to
\* get(), and that render comes: the snapshot becomes the value set last.
Subscribed ==
    /\ screen = "content"
    /\ \E run \in 1..MaxEffectRuns : Closure(run) \in Range(listeners)

C13_Scheduled ==
    (Subscribed /\ op'.name = "set") =>
        /\ pass'.log # <<>>
        /\ queue' # <<>> \/ snapshot = value'

C13_Processed ==
    (queue # <<>> /\ queue' = <<>> /\ screen' = "content") => snapshot' = value'

C13_Current ==
    (Subscribed /\ op.name = "set") ~>
        (screen # "content" \/ (queue = <<>> /\ snapshot = value))

C13_EverySetDelivered ==
    [][C13_Scheduled /\ C13_Processed]_vars /\ C13_Current

\* A render has just processed the update scheduled by a set of a new value
\* that was made while the shim was subscribed.
C13_Witness ==
    /\ op.name = "render"
    /\ Subscribed
    /\ snapshot = value
    /\ snapshot # initial

\* ---------------------------------------------------------------- C14
\* C14 as stated: every notification from the atom makes the shim render the
\* element again, also one after which get() returns the state the hook
\* already holds.
C14_RenderOnEveryNotification ==
    (op.name = "set" /\ Subscribed /\ pass.log # <<>>) => queue # <<>>

\* C14 amended: a notification schedules a state update of the element, and
\* with it a render, except when no update is waiting and get() returns the
\* state the hook already holds: then useState schedules nothing.
C14_RenderUnlessUnchanged ==
    (op'.name = "set" /\ Subscribed /\ pass'.log # <<>>) =>
        IF queue = <<>> /\ value' = snapshot
        THEN queue' = <<>>
        ELSE Len(queue') = Len(queue) + Len(pass'.log)

C14_BailOutOnSameSnapshot == [][C14_RenderUnlessUnchanged]_vars

\* A set has just notified the shim with the value its state already holds,
\* and no update is scheduled.
C14_Witness ==
    /\ op.name = "set"
    /\ Subscribed
    /\ pass.log # <<>>
    /\ value = snapshot
    /\ queue = <<>>

\* ---------------------------------------------------------------- C15
\* C15: a mounted shim has at most one listener registered on the atom; when
\* the effect runs again because subscribe or getSnapshot has changed, the
\* listener of the run before is removed and the new one is the only one
\* registered; once the element has been removed no listener of the shim is
\* registered, and a set invokes none.
ShimEntries == {i \in DOMAIN listeners : listeners[i] \in ShimListeners}

C15_AtMostOne == Cardinality(ShimEntries) <= 1

C15_NoneAfterTeardown ==
    screen = "gone" =>
        /\ ShimEntries = {}
        /\ op.name = "set" => pass.log = <<>>

C15_Replaced ==
    op'.name = "effect" =>
        /\ \A i \in DOMAIN listeners' :
              listeners'[i] \in ShimListeners => listeners'[i] = Closure(runs')
        /\ Closure(runs') \in Range(listeners')

C15_ScopedSubscription ==
    [](C15_AtMostOne /\ C15_NoneAfterTeardown) /\ [][C15_Replaced]_vars

\* The atom has just been set after the removal of an element whose effect
\* had run twice, the second time with other subscribe and getSnapshot
\* functions.
C15_Witness ==
    /\ op.name = "set"
    /\ screen = "gone"
    /\ runs >= 2
    /\ value # snapshot

=============================================================================
